---- MODULE Spec2Model ----
(***************************************************************************)
(* A model of parseSizes (src/parse-sizes.js, lines 28-214): the toy CSS   *)
(* tokenizer parseComponentValues, the validator                           *)
(* isValidNonNegativeSourceSizeValue with its two regular expressions, and *)
(* the selection loop over the tokenized groups.                           *)
(*                                                                         *)
(* A JavaScript string is modelled as a sequence of one-character strings; *)
(* the value undefined is the one-element sequence Undefined, which is no  *)
(* string of characters.                                                   *)
(***************************************************************************)
EXTENDS Integers, Sequences, FiniteSets, TLC

\* ------------------------------------------------------------------------
\* Bounds of the model.

\* The longest input, counted in pieces of Pieces, that Init enumerates.
MaxPieces == 4

\* The longest run of a calc form that RunStrings enumerates.
MaxRun == 3

\* The longest input, counted in pieces of Pieces, of the scan on its own.
MaxScanPieces == 3

\* ------------------------------------------------------------------------
\* JavaScript values.

Undefined == <<"undefined">>

UndefinedChar == "undefined"

\* str[ pos ]: the character at a 0-based index, undefined out of range.
CharAt(str, pos) ==
    IF pos >= 0 /\ pos < Len(str) THEN str[pos + 1] ELSE UndefinedChar

Default100vw == <<"1", "0", "0", "v", "w">>

Digits == {"0", "1", "2", "3", "4", "5", "6", "7", "8", "9"}

LowerAlpha ==
    <<"a", "b", "c", "d", "e", "f", "g", "h", "i", "j", "k", "l", "m",
      "n", "o", "p", "q", "r", "s", "t", "u", "v", "w", "x", "y", "z">>

UpperAlpha ==
    <<"A", "B", "C", "D", "E", "F", "G", "H", "I", "J", "K", "L", "M",
      "N", "O", "P", "Q", "R", "S", "T", "U", "V", "W", "X", "Y", "Z">>

LowerLetters == {LowerAlpha[k] : k \in DOMAIN LowerAlpha}

\* ------------------------------------------------------------------------
\* Regular expressions: the syntax tree of a literal, and RegExp.test as the
\* set of positions a match can end at (every way the backtracking matcher
\* can go), so that test(s) is "some match of the whole pattern ends at the
\* end of s" for a pattern anchored by ^ and $.

Chr(set) == [t |-> "chr", set |-> set]

Cat(parts) == [t |-> "cat", parts |-> parts]

Alt(opts) == [t |-> "alt", opts |-> opts]

Opt(r) == [t |-> "opt", r |-> r]

Plus(r) == [t |-> "plus", r |-> r]

Star(r) == Opt(Plus(r))

Lit(word) == Cat([k \in DOMAIN word |-> Chr({word[k]})])

\* The i flag: characters are compared by their case folds.  The string is
\* folded as a whole; the classes of an ignoreCase pattern hold the folded
\* (lower-case) form of every letter they name.
FoldMap ==
    [c \in {UpperAlpha[k] : k \in DOMAIN UpperAlpha} |->
        LowerAlpha[CHOOSE k \in DOMAIN UpperAlpha : UpperAlpha[k] = c]]

Canonicalize(c) == IF c \in DOMAIN FoldMap THEN FoldMap[c] ELSE c

\* The positions at which a match of r that starts at a position of `from`
\* can end; no start, no end.
RECURSIVE Ends(_, _, _), EndsOfParts(_, _, _, _)
Ends(r, s, from) ==
    IF from = {} THEN {}
    ELSE CASE r.t = "chr" ->
           {p + 1 : p \in {q \in from : q < Len(s) /\ s[q + 1] \in r.set}}
      [] r.t = "cat" -> EndsOfParts(r.parts, 1, s, from)
      [] r.t = "alt" ->
           UNION {Ends(r.opts[k], s, from) : k \in DOMAIN r.opts}
      [] r.t = "opt" -> from \cup Ends(r.r, s, from)
      [] r.t = "plus" ->
           LET once == Ends(r.r, s, from)
           IN  once \cup Ends(r, s, once)

\* The parts k, k + 1, ... of a concatenation, matched one after the other.
EndsOfParts(parts, k, s, from) ==
    IF k > Len(parts) \/ from = {} THEN from
    ELSE EndsOfParts(parts, k + 1, s, Ends(parts[k], s, from))

\* re.test(s) for a pattern of the form /^...$/ (no m flag: $ is the end).
RegexTest(re, s) ==
    LET subject == IF re.ignoreCase
                   THEN [k \in DOMAIN s |-> Canonicalize(s[k])] ELSE s
    IN  Len(s) \in Ends(re.pattern, subject, {0})

Sign == Chr({"+", "-"})

Digit == Chr(Digits)

Units ==
    << <<"c", "h">>, <<"c", "m">>, <<"e", "m">>, <<"e", "x">>,
       <<"i", "n">>, <<"m", "m">>, <<"p", "c">>, <<"p", "t">>,
       <<"p", "x">>, <<"r", "e", "m">>, <<"v", "h">>,
       <<"v", "m", "i", "n">>, <<"v", "m", "a", "x">>, <<"v", "w">> >>

\* The length pattern without its i flag.
regexCssLengthCaseSensitive ==
    [pattern |->
       Cat(<< Alt(<< Cat(<<Opt(Sign), Plus(Digit)>>),
                     Cat(<<Star(Digit), Chr({"."}), Plus(Digit)>>) >>),
              Opt(Cat(<<Chr({"e", "E"}), Opt(Sign), Plus(Digit)>>)),
              Alt([k \in DOMAIN Units |-> Lit(Units[k])]) >>),
     ignoreCase |-> FALSE]

\* /^(?:[+-]?[0-9]+|[0-9]*\.[0-9]+)(?:[eE][+-]?[0-9]+)?(?:ch|cm|...|vw)$/i
regexCssLengthWithUnits ==
    [pattern |->
       Cat(<< Alt(<< Cat(<<Opt(Sign), Plus(Digit)>>),
                     Cat(<<Star(Digit), Chr({"."}), Plus(Digit)>>) >>),
              Opt(Cat(<<Chr({"e", "E"}), Opt(Sign), Plus(Digit)>>)),
              Alt([k \in DOMAIN Units |-> Lit(Units[k])]) >>),
     ignoreCase |-> TRUE]

CalcClass ==
    Digits \cup LowerLetters \cup {" ", ".", "+", "-", "*", "/", "(", ")"}

\* The calc pattern with a class that lacks the "." (/^calc\((?:[0-9a-z
\* \+\-\*\/\(\)]+)\)$/i, the pattern of line 257).
regexCssCalcNoDot ==
    [pattern |->
       Cat(<< Lit(<<"c", "a", "l", "c", "(">>),
              Plus(Chr(CalcClass \ {"."})),
              Chr({")"}) >>),
     ignoreCase |-> TRUE]

\* /^calc\((?:[0-9a-z \.\+\-\*\/\(\)]+)\)$/i
regexCssCalc ==
    [pattern |->
       Cat(<< Lit(<<"c", "a", "l", "c", "(">>),
              Plus(Chr(CalcClass)),
              Chr({")"}) >>),
     ignoreCase |-> TRUE]

\* ------------------------------------------------------------------------
\* parseFloat(s) >= 0.  parseFloat reads an optional sign and then the
\* longest decimal literal; the result is NaN (and NaN >= 0 is false) when no
\* digit follows the sign; -0 >= 0 is true.  The sign of the value is the
\* sign character unless every digit of the mantissa is 0.  (A mantissa that
\* underflows to -0 needs an exponent below -300, that is at least three
\* exponent digits: no token of the model's domains has them.)

RECURSIVE MantissaEnd(_, _, _)
MantissaEnd(s, k, seenDot) ==
    IF k > Len(s) THEN k
    ELSE IF s[k] \in Digits THEN MantissaEnd(s, k + 1, seenDot)
    ELSE IF s[k] = "." /\ ~seenDot THEN MantissaEnd(s, k + 1, TRUE)
    ELSE k

ParseFloatNonNegative(s) ==
    LET first == IF Len(s) > 0 /\ s[1] \in {"+", "-"} THEN 2 ELSE 1
        stop == MantissaEnd(s, first, FALSE)
        digitsAt == {k \in first .. (stop - 1) : s[k] \in Digits}
        negative == Len(s) > 0 /\ s[1] = "-"
    IN  /\ digitsAt # {}
        /\ negative => \A k \in digitsAt : s[k] = "0"

\* ------------------------------------------------------------------------
\* isValidNonNegativeSourceSizeValue: which of its three tests accepts s.

ValidationBranch(s) ==
    IF RegexTest(regexCssLengthWithUnits, s) /\ ParseFloatNonNegative(s)
    THEN "length"
    ELSE IF RegexTest(regexCssCalc, s) THEN "calc"
    ELSE IF s = <<"0">> \/ s = <<"-", "0">> \/ s = <<"+", "0">> THEN "zero"
    ELSE "invalid"

isValidNonNegativeSourceSizeValue(s) == ValidationBranch(s) # "invalid"

\* ------------------------------------------------------------------------
\* parseComponentValues: the state of the scan and one iteration of its loop.

isSpace(c) == c \in {" ", "\t", "\n", "\f", "\r"}

ScanInit ==
    [component |-> <<>>, componentArray |-> <<>>, listArray |-> <<>>,
     parenDepth |-> 0, pos |-> 0, inComment |-> FALSE, returned |-> FALSE]

pushComponent(st) ==
    IF st.component # <<>>
    THEN [st EXCEPT !.componentArray = Append(@, st.component),
                    !.component = <<>>]
    ELSE st

\* pushComponentArray without its test of componentArray[ 0 ].
pushComponentArrayUnguarded(st) ==
    [st EXCEPT !.listArray = Append(@, st.componentArray),
               !.componentArray = <<>>]

pushComponentArray(st) ==
    IF Len(st.componentArray) > 0 /\ st.componentArray[1] # <<>>
    THEN [st EXCEPT !.listArray = Append(@, st.componentArray),
                    !.componentArray = <<>>]
    ELSE st

\* component = component + chrctr; pos += 1;
AppendChar(st, c) ==
    [st EXCEPT !.component = Append(@, c), !.pos = @ + 1]

\* A comment that ends at its first "*", whatever follows it.
atEndOfCommentStarOnly(str, pos) == CharAt(str, pos) = "*"

\* (chrctr === "*") && (str[ pos + 1 ] === "/")
atEndOfComment(str, pos) ==
    CharAt(str, pos) = "*" /\ CharAt(str, pos + 1) = "/"

\* The skip of a character inside a comment without its pos += 1.
skipNothingInComment(st) == st

\* pos += 1; continue; (Skip all characters inside comments.)
skipInComment(st) == [st EXCEPT !.pos = @ + 1]

ScanStep(st, str) ==
    LET chrctr == CharAt(str, st.pos)
    IN  IF chrctr = UndefinedChar
        THEN [pushComponentArray(pushComponent(st)) EXCEPT !.returned = TRUE]
        ELSE IF st.inComment
        THEN IF atEndOfComment(str, st.pos)
             THEN pushComponent([st EXCEPT !.inComment = FALSE, !.pos = @ + 2])
             ELSE skipInComment(st)
        ELSE IF isSpace(chrctr)
        THEN IF isSpace(CharAt(str, st.pos - 1)) \/ st.component = <<>>
             THEN [st EXCEPT !.pos = @ + 1]
             ELSE IF st.parenDepth = 0
             THEN [pushComponent(st) EXCEPT !.pos = @ + 1]
             ELSE AppendChar(st, " ")
        ELSE IF chrctr = "("
        THEN AppendChar([st EXCEPT !.parenDepth = @ + 1], chrctr)
        ELSE IF chrctr = ")"
        THEN AppendChar([st EXCEPT !.parenDepth = @ - 1], chrctr)
        ELSE IF chrctr = ","
        THEN [pushComponentArray(pushComponent(st)) EXCEPT !.pos = @ + 1]
        ELSE IF chrctr = "/" /\ CharAt(str, st.pos + 1) = "*"
        THEN [st EXCEPT !.inComment = TRUE, !.pos = @ + 2]
        ELSE AppendChar(st, chrctr)

\* The whole call on a string: the loop run to its return statement.
RECURSIVE ScanFrom(_, _)
ScanFrom(st, str) ==
    IF st.returned THEN st.listArray ELSE ScanFrom(ScanStep(st, str), str)

parseComponentValues(str) == ScanFrom(ScanInit, str)

\* ------------------------------------------------------------------------
\* Array helpers of the selection loop.

\* unparsedSize[ unparsedSize.length - 1 ]
LastOf(a) == IF Len(a) = 0 THEN Undefined ELSE a[Len(a)]

\* the array when the pop() is left out
PopNothing(a) == a

\* the array after unparsedSize.pop()
Pop(a) == IF Len(a) = 0 THEN a ELSE SubSeq(a, 1, Len(a) - 1)

\* unparsedSize.join(" ")
RECURSIVE Join(_)
Join(a) ==
    IF Len(a) = 0 THEN <<>>
    ELSE IF Len(a) = 1 THEN a[1]
    ELSE a[1] \o <<" ">> \o Join(Tail(a))

\* ------------------------------------------------------------------------
\* The inputs Init enumerates: every concatenation of at most MaxPieces
\* pieces, some longer attribute values (most of them from
\* src/test/test-runner.js, with the media condition shortened to a letter),
\* and the absent argument.

Pieces ==
    { <<"1", "p", "x">>, <<"a">>, <<" ">>, <<",">>, <<"(">>, <<")">>,
      <<"/", "*">>, <<"*", "/">> }

RECURSIVE PieceStrings(_)
PieceStrings(n) ==
    IF n = 0 THEN {<<>>}
    ELSE {<<>>} \cup {p \o s : p \in Pieces, s \in PieceStrings(n - 1)}

Examples ==
    { <<"+", "0">>,
      <<"-", "0", "e", "-", "0", "p", "x">>,
      <<"-", "1", "p", "x">>,
      <<"a", " ", "1", "p", "x", ",", "1", "p", "x">>,
      <<"a", " ", "1", "p", "x", ",", "(">>,
      <<"a", " ", "1", "p", "x", ",", "a", "a", " ", "1", "p", "x">>,
      <<"a", " ", "1", "p", "x", ",", "-", "1", "p", "x", ",", "+", "0">>,
      <<"(", "a", "\t", "\n", "a", ")", " ", "1", "p", "x">>,
      <<"(", "a", ",", "a", ")", " ", "1", "p", "x">>,
      <<"c", "a", "l", "c", "(", "1", "p", "x", " ", "+", " ", "1", "p", "x", ")">>,
      <<"c", "a", "l", "c", "(", "1", "p", "x", "/", "*", "*", "/", "+", " ",
        "1", "p", "x", ")">>,
      <<"/", "*", " ", "*", "/", "1", "p", "x", "/", "*", " ", "*", "/">>,
      <<"1", "/", "*", " ", "*", "/", "p", "x">>,
      <<"/", "*", " ", "5", "0", "v", "w">>,
      <<")", ",", "a", " ", "1", "p", "x">> }

Inputs == PieceStrings(MaxPieces) \cup Examples \cup {Undefined}

\* ------------------------------------------------------------------------
\* The state of one call parseSizes(strValue).

VARIABLES
    strValue,           \* the argument: a string, or Undefined when absent
    hasConsole,         \* window.console && console.log
    component, componentArray, listArray, parenDepth, pos, inComment,
                        \* the locals of parseComponentValues; listArray is
                        \* kept as the value the call returned
    unparsedSizesList,  \* the returned list, as the loop's pop() changes it
    i,                  \* the loop index of parseSizes
    size,               \* the local size (Undefined until assigned)
    result,             \* the value returned by parseSizes
    pc,                 \* "scan", "select", "done" (returned), "threw",
                        \* "validate", "validated"
    matchesTrue, matchesFalse,
                        \* window.matchMedia, as far as it has been asked:
                        \* the texts it answered true for, and false for
    mediaCalls,         \* the calls of window.matchMedia, in order
    logged,             \* the number of console.log calls
    token, tokenForm, verdict
                        \* the validator called on its own: its argument,
                        \* the parts Init composed the argument of, and
                        \* which test accepted it

vars ==
    <<strValue, hasConsole, component, componentArray, listArray, parenDepth,
      pos, inComment, unparsedSizesList, i, size, result, pc, matchesTrue,
      matchesFalse, mediaCalls, logged, token, tokenForm, verdict>>

callVars ==
    <<strValue, hasConsole, component, componentArray, listArray, parenDepth,
      pos, inComment, unparsedSizesList, i, size, result, matchesTrue,
      matchesFalse, mediaCalls, logged>>

validatorVars == <<token, tokenForm, verdict>>

scanVars == <<component, componentArray, listArray, parenDepth, pos, inComment>>

selectVars ==
    <<unparsedSizesList, i, size, result, matchesTrue, matchesFalse,
      mediaCalls, logged>>

ScanState ==
    [component |-> component, componentArray |-> componentArray,
     listArray |-> listArray, parenDepth |-> parenDepth, pos |-> pos,
     inComment |-> inComment, returned |-> pc # "scan"]

InitCall ==
    /\ component = ScanInit.component
    /\ componentArray = ScanInit.componentArray
    /\ listArray = ScanInit.listArray
    /\ parenDepth = ScanInit.parenDepth
    /\ pos = ScanInit.pos
    /\ inComment = ScanInit.inComment
    /\ unparsedSizesList = <<>>
    /\ i = 0
    /\ size = Undefined
    /\ result = Undefined
    /\ matchesTrue = {}
    /\ matchesFalse = {}
    /\ mediaCalls = <<>>
    /\ logged = 0

NoForm == [kind |-> "none", parts |-> <<>>]

Init ==
    /\ strValue \in Inputs
    /\ hasConsole \in BOOLEAN
    /\ InitCall
    /\ pc = "scan"
    /\ token = <<>>
    /\ tokenForm = NoForm
    /\ verdict = "pending"

\* ------------------------------------------------------------------------
\* parseComponentValues(strValue), one loop iteration per step.

SetScanState(st) ==
    /\ component' = st.component
    /\ componentArray' = st.componentArray
    /\ listArray' = st.listArray
    /\ parenDepth' = st.parenDepth
    /\ pos' = st.pos
    /\ inComment' = st.inComment

\* str[ pos ] on an absent argument raises a TypeError.
ScanThrow ==
    /\ pc = "scan"
    /\ strValue = Undefined
    /\ pc' = "threw"
    /\ UNCHANGED <<strValue, hasConsole, scanVars, selectVars, validatorVars>>

ScanChar ==
    /\ pc = "scan"
    /\ strValue # Undefined
    /\ CharAt(strValue, pos) # UndefinedChar
    /\ SetScanState(ScanStep(ScanState, strValue))
    /\ UNCHANGED <<strValue, hasConsole, pc, selectVars, validatorVars>>

\* End of string: flush, return listArray; parseSizes starts its loop.
ScanReturn ==
    /\ pc = "scan"
    /\ strValue # Undefined
    /\ CharAt(strValue, pos) = UndefinedChar
    /\ LET st == ScanStep(ScanState, strValue)
       IN  /\ SetScanState(st)
           /\ unparsedSizesList' = st.listArray
    /\ i' = 0
    /\ pc' = "select"
    /\ UNCHANGED <<strValue, hasConsole, size, result, matchesTrue,
                   matchesFalse, mediaCalls, logged, validatorVars>>

\* ------------------------------------------------------------------------
\* The loop of parseSizes, one iteration per step.

unparsedSizesListLength == Len(listArray)

unparsedSize == unparsedSizesList[i + 1]

lastComponentValue == LastOf(unparsedSize)

\* Step 2: size and unparsedSize after the if of lines 176-182, on the paths
\* that go on to step 3; valid is the outcome of line 176's test.
SizeAfterStep2(valid) == IF valid THEN lastComponentValue ELSE size

UnparsedSizeAfterStep2(valid) ==
    IF valid THEN Pop(unparsedSize) ELSE unparsedSize

\* The if of lines 176-182 goes on to step 3: the size was valid, or it was
\* not and the else-if's condition (window.console && console.log) is false.
ReachesStep3(valid) == valid \/ ~hasConsole

\* window.matchMedia(text).matches: a fixed answer per text.
MatchMediaAnswers(text) ==
    IF text \in matchesTrue THEN {TRUE}
    ELSE IF text \in matchesFalse THEN {FALSE}
    ELSE BOOLEAN

\* Lines 179-181: the size is not valid and the sink exists: log, continue.
ParseErrorContinue ==
    /\ pc = "select"
    /\ i < unparsedSizesListLength
    /\ hasConsole
    /\ ~isValidNonNegativeSourceSizeValue(lastComponentValue)
    /\ logged' = logged + 1
    /\ i' = i + 1
    /\ UNCHANGED <<strValue, hasConsole, scanVars, unparsedSizesList, size,
                   result, pc, matchesTrue, matchesFalse, mediaCalls,
                   validatorVars>>

\* Lines 187-192: nothing is left of unparsedSize: return size.
ReturnUnconditional ==
    /\ pc = "select"
    /\ i < unparsedSizesListLength
    /\ LET valid == isValidNonNegativeSourceSizeValue(lastComponentValue)
           rest == UnparsedSizeAfterStep2(valid)
       IN  /\ ReachesStep3(valid)
           /\ Len(rest) = 0
           /\ size' = SizeAfterStep2(valid)
           /\ unparsedSizesList' = [unparsedSizesList EXCEPT ![i + 1] = rest]
           /\ result' = SizeAfterStep2(valid)
    /\ logged' = IF i # unparsedSizesListLength - 1 /\ hasConsole
                 THEN logged + 1 ELSE logged
    /\ pc' = "done"
    /\ UNCHANGED <<strValue, hasConsole, scanVars, i, matchesTrue,
                   matchesFalse, mediaCalls, validatorVars>>

\* Lines 202-205: the media condition does not match: continue.
MediaContinue ==
    /\ pc = "select"
    /\ i < unparsedSizesListLength
    /\ LET valid == isValidNonNegativeSourceSizeValue(lastComponentValue)
           rest == UnparsedSizeAfterStep2(valid)
           text == Join(rest)
       IN  /\ ReachesStep3(valid)
           /\ Len(rest) # 0
           /\ FALSE \in MatchMediaAnswers(text)
           /\ matchesFalse' = matchesFalse \cup {text}
           /\ mediaCalls' = Append(mediaCalls,
                 [group |-> i, text |-> text, matches |-> FALSE])
           /\ size' = SizeAfterStep2(valid)
           /\ unparsedSizesList' = [unparsedSizesList EXCEPT ![i + 1] = rest]
    /\ i' = i + 1
    /\ UNCHANGED <<strValue, hasConsole, scanVars, result, pc, matchesTrue,
                   logged, validatorVars>>

\* Lines 202-208: the media condition matches: return size.
MediaReturn ==
    /\ pc = "select"
    /\ i < unparsedSizesListLength
    /\ LET valid == isValidNonNegativeSourceSizeValue(lastComponentValue)
           rest == UnparsedSizeAfterStep2(valid)
           text == Join(rest)
       IN  /\ ReachesStep3(valid)
           /\ Len(rest) # 0
           /\ TRUE \in MatchMediaAnswers(text)
           /\ matchesTrue' = matchesTrue \cup {text}
           /\ mediaCalls' = Append(mediaCalls,
                 [group |-> i, text |-> text, matches |-> TRUE])
           /\ size' = SizeAfterStep2(valid)
           /\ unparsedSizesList' = [unparsedSizesList EXCEPT ![i + 1] = rest]
           /\ result' = SizeAfterStep2(valid)
    /\ pc' = "done"
    /\ UNCHANGED <<strValue, hasConsole, scanVars, i, matchesFalse, logged,
                   validatorVars>>

\* Line 213: the list is exhausted.
ReturnDefault ==
    /\ pc = "select"
    /\ i >= unparsedSizesListLength
    /\ result' = Default100vw
    /\ pc' = "done"
    /\ UNCHANGED <<strValue, hasConsole, scanVars, unparsedSizesList, i, size,
                   matchesTrue, matchesFalse, mediaCalls, logged,
                   validatorVars>>

Next ==
    \/ ScanThrow
    \/ ScanChar
    \/ ScanReturn
    \/ ParseErrorContinue
    \/ ReturnUnconditional
    \/ MediaContinue
    \/ MediaReturn
    \/ ReturnDefault

Spec == Init /\ [][Next]_vars

\* ------------------------------------------------------------------------
\* isValidNonNegativeSourceSizeValue called on its own, on tokens composed of
\* parts: a number form is sign, integer digits, fraction, exponent, unit; a
\* calc form is head, run, tail.

Signs == {<<>>, <<"+">>, <<"-">>}

IntParts == {<<>>, <<"0">>, <<"1">>, <<"0", "5">>, <<"1", "0">>}

FracParts == {<<>>, <<".", "0">>, <<".", "5">>, <<".">>}

ExpParts ==
    {<<>>, <<"e", "1">>, <<"E", "-", "0">>, <<"e", "+", "0", "1">>, <<"e">>,
     <<"e", "1", ".", "5">>}

\* The percentage and the time, angle, frequency and resolution units of
\* src/test/test-runner.js, lines 89-100.
DisallowedUnits ==
    { <<"%">>, <<"d", "e", "g">>, <<"g", "r", "a", "d">>, <<"r", "a", "d">>,
      <<"t", "u", "r", "n">>, <<"s">>, <<"m", "s">>, <<"H", "z">>,
      <<"k", "H", "z">>, <<"d", "p", "i">>, <<"d", "p", "c", "m">>,
      <<"d", "p", "p", "x">> }

UnitForms ==
    {Units[k] : k \in DOMAIN Units}
    \cup { <<"P", "X">>, <<"V", "w">>, <<"v", "M", "i", "N">>,
           <<"R", "E", "M">>, <<"q">>, <<>> }
    \cup DisallowedUnits

NumberForms ==
    {[kind |-> "number", parts |-> <<sg, d, f, e, u>>] :
        sg \in Signs, d \in IntParts, f \in FracParts, e \in ExpParts,
        u \in UnitForms}

CalcHeads ==
    { <<"c", "a", "l", "c", "(">>, <<"C", "A", "L", "C", "(">>,
      <<"c", "A", "l", "C", "(">>, <<"c", "a", "l", "c">>,
      <<"a", "l", "c", "(">>, <<"x", "c", "a", "l", "c", "(">>,
      <<"c", "a", "l", "c", "[">>, <<>> }

RunAlphabet == {"1", "Z", " ", ".", "(", ")", "%", ","}

RECURSIVE RunStrings(_)
RunStrings(n) ==
    IF n = 0 THEN {<<>>}
    ELSE {<<>>} \cup {<<c>> \o s : c \in RunAlphabet, s \in RunStrings(n - 1)}

CalcTails == {<<")">>, <<>>, <<")", ")">>, <<")", " ">>}

\* The calc() tokens of src/test/test-runner.js, lines 79-83 and 227.
CalcExamples ==
    { <<"1", "p", "x">>,
      <<"5", "p", "x", " ", "+", " ", "5", "p", "x">>,
      <<"(", "5", "p", "x", " ", "+", " ", "5", "p", "x", ")", "*", "2">>,
      <<"2", "0", "0", "p", "x", " ", "*", " ", "1", ".", "4">>,
      <<"2", "0", ".", "2", "e", "m", " ", "+", " ", "1", "0", "p", "x">>,
      <<"1", "-", "2", "/", "3">> }

CalcForms ==
    {[kind |-> "calc", parts |-> <<h, r, tl>>] :
        h \in CalcHeads, r \in RunStrings(MaxRun) \cup CalcExamples,
        tl \in CalcTails}

TokenForms == NumberForms \cup CalcForms

RECURSIVE Concat(_)
Concat(parts) ==
    IF Len(parts) = 0 THEN <<>> ELSE Head(parts) \o Concat(Tail(parts))

InitValidator ==
    /\ tokenForm \in TokenForms
    /\ token = Concat(tokenForm.parts)
    /\ verdict = "pending"
    /\ pc = "validate"
    /\ strValue = <<>>
    /\ hasConsole = TRUE
    /\ InitCall

Validate ==
    /\ pc = "validate"
    /\ verdict' = ValidationBranch(token)
    /\ pc' = "validated"
    /\ UNCHANGED <<callVars, token, tokenForm>>

NextValidator == Validate

SpecValidator == InitValidator /\ [][NextValidator]_vars

\* ------------------------------------------------------------------------
\* The claims.  The groups are read from listArray, the list as
\* parseComponentValues returned it.

Returned == pc = "done"

GroupIndexes == 1 .. Len(listArray)

\* The media tokens of group k, joined by single spaces.
MediaText(k) == Join(Pop(listArray[k]))

SizeOf(k) == LastOf(listArray[k])

\* Group k's size is valid and its media tokens are absent or were answered
\* true / its size is not valid or its media tokens were answered false.
Eligible(k) ==
    /\ isValidNonNegativeSourceSizeValue(SizeOf(k))
    /\ Len(listArray[k]) = 1 \/ MediaText(k) \in matchesTrue

Ineligible(k) ==
    \/ ~isValidNonNegativeSourceSizeValue(SizeOf(k))
    \/ Len(listArray[k]) > 1 /\ MediaText(k) \in matchesFalse

\* C1: parseSizes returns "100vw" or the last token of the group it is
\* examining when it returns, and that token is a valid non-negative size;
\* with or without window.console.
C1_ReturnsDefaultOrValidSizeOfExaminedGroup ==
    Returned =>
        \/ result = Default100vw
        \/ /\ i < Len(listArray)
           /\ result = SizeOf(i + 1)
           /\ isValidNonNegativeSourceSizeValue(result)

\* C2: when no group ends in a valid size, parseSizes returns "100vw"
\* whatever window.matchMedia answers.
C2_NoValidSizeReturnsDefault ==
    (Returned /\ \A k \in GroupIndexes :
                    ~isValidNonNegativeSourceSizeValue(SizeOf(k)))
        => result = Default100vw

\* C3: parseSizes returns the size of the first eligible group, and "100vw"
\* when no group is eligible.
C3_FirstMatchWins ==
    Returned =>
        \/ \E k \in GroupIndexes :
              /\ Eligible(k)
              /\ \A j \in 1 .. (k - 1) : Ineligible(j)
              /\ result = SizeOf(k)
        \/ /\ \A k \in GroupIndexes : Ineligible(k)
           /\ result = Default100vw

\* C4: when the loop reaches a group that is one valid size token, the step
\* returns that token as the tokenizer produced it, without asking
\* window.matchMedia and without moving to another group; nothing happens
\* after the return; a lone "+0" or "-0e-0px" comes back as written.
C4_UnconditionalSizeReturnedAtOnce ==
    /\ [][ /\ pc # "done"
           /\ (/\ pc = "select"
               /\ i < unparsedSizesListLength
               /\ Len(unparsedSize) = 1
               /\ isValidNonNegativeSourceSizeValue(unparsedSize[1]))
              => (/\ pc' = "done"
                  /\ result' = unparsedSize[1]
                  /\ result' = listArray[i + 1][1]
                  /\ mediaCalls' = mediaCalls
                  /\ i' = i) ]_vars
    /\ [](Returned /\ strValue \in { <<"+", "0">>,
                                     <<"-", "0", "e", "-", "0", "p", "x">> }
            => result = strValue)

\* C4's case: the third group is the lone token "+0", reached after a media
\* condition answered false and a parse error.
C4_Witness ==
    /\ Returned
    /\ i = 2
    /\ Len(listArray) = 3
    /\ listArray[3] = << <<"+", "0">> >>
    /\ result = <<"+", "0">>
    /\ Len(mediaCalls) = 1

\* C5: an absent argument does not throw and gives "100vw".
C5_AbsentInputReturnsDefault ==
    (strValue = Undefined /\ pc \in {"done", "threw"})
        => (pc = "done" /\ result = Default100vw)

\* C6: a comma met at parenDepth > 0 neither ends the current token nor
\* starts a new group.
C6_CommaInsideParensDoesNotSplit ==
    [][ (/\ pc = "scan"
         /\ strValue # Undefined
         /\ ~inComment
         /\ CharAt(strValue, pos) = ","
         /\ parenDepth > 0)
        => (componentArray' = componentArray /\ listArray' = listArray) ]_vars

RECURSIVE Flatten(_)
Flatten(a) == IF Len(a) = 0 THEN <<>> ELSE Head(a) \o Flatten(Tail(a))

NonSpace(str) == SelectSeq(str, LAMBDA c : ~isSpace(c))

\* a is b with some characters left out.
RECURSIVE IsSubsequence(_, _)
IsSubsequence(a, b) ==
    IF Len(a) = 0 THEN TRUE
    ELSE IF Len(b) = 0 THEN FALSE
    ELSE IF Head(a) = Head(b) THEN IsSubsequence(Tail(a), Tail(b))
    ELSE IsSubsequence(a, Tail(b))

IsToken(t) == Len(t) > 0 /\ \E k \in DOMAIN t : ~isSpace(t[k])

CommaPositions(str) == {k \in DOMAIN str : str[k] = ","}

\* str with one more comma before position k (k = Len(str) + 1: at the end).
WithCommaAt(str, k) ==
    SubSeq(str, 1, k - 1) \o <<",">> \o SubSeq(str, k, Len(str))

\* C7: no group is empty, no token is empty or made of whitespace only, the
\* characters of the tokens are those of the input in the input's order; an
\* input of commas and whitespace gives no group and "100vw"; a comma added
\* in front, at the end or next to another comma changes nothing.
C7_NoEmptyGroupOrTokenOrderKept ==
    /\ \A k \in DOMAIN listArray :
          /\ Len(listArray[k]) > 0
          /\ \A m \in DOMAIN listArray[k] : IsToken(listArray[k][m])
    /\ \A m \in DOMAIN componentArray : IsToken(componentArray[m])
    /\ strValue # Undefined =>
          IsSubsequence(
              NonSpace(Flatten(Flatten(listArray) \o componentArray
                               \o <<component>>)),
              strValue)
    /\ (pc = "select" /\ i = 0) =>
          /\ parseComponentValues(WithCommaAt(strValue, 1)) = listArray
          /\ parseComponentValues(WithCommaAt(strValue, Len(strValue) + 1))
                = listArray
          /\ \A k \in CommaPositions(strValue) :
                parseComponentValues(WithCommaAt(strValue, k)) = listArray
    /\ (Returned /\ \A k \in DOMAIN strValue :
                        strValue[k] = "," \/ isSpace(strValue[k]))
          => (listArray = <<>> /\ result = Default100vw)

\* C7's case: leading, trailing and repeated commas around one size.
C7_Witness ==
    /\ Returned
    /\ strValue = <<",", "1", "p", "x", ",", ",">>
    /\ listArray = << << <<"1", "p", "x">> >> >>
    /\ result = <<"1", "p", "x">>

\* The first "/*" of str, and the first "*/" after it (0: none).
FirstCommentStart(str) ==
    LET at == {k \in 1 .. (Len(str) - 1) : str[k] = "/" /\ str[k + 1] = "*"}
    IN  IF at = {} THEN 0 ELSE CHOOSE k \in at : \A m \in at : k <= m

FirstCommentEnd(str) ==
    LET from == FirstCommentStart(str)
        at == {k \in (from + 2) .. (Len(str) - 1) :
                  str[k] = "*" /\ str[k + 1] = "/"}
    IN  IF from = 0 \/ at = {} THEN 0
        ELSE CHOOSE k \in at : \A m \in at : k <= m

\* str with its first complete comment replaced by one space.
WithoutFirstComment(str) ==
    SubSeq(str, 1, FirstCommentStart(str) - 1) \o <<" ">>
        \o SubSeq(str, FirstCommentEnd(str) + 2, Len(str))

\* C10: replacing a complete comment by one space leaves the output of
\* parseComponentValues unchanged, at every paren depth.
C10_CommentEquivalentToSpace ==
    (/\ pc = "select"
     /\ i = 0
     /\ FirstCommentEnd(strValue) # 0)
        => parseComponentValues(WithoutFirstComment(strValue)) = listArray

\* ------------------------------------------------------------------------
\* The validator's claims, under SpecValidator.

Validated == pc = "validated"

IsDigitRun(x) == Len(x) > 0 /\ \A k \in DOMAIN x : x[k] \in Digits

\* "." and digits, or nothing.
IsOptionalFraction(f) == f = <<>> \/ (f[1] = "." /\ IsDigitRun(Tail(f)))

\* e or E, an optional sign, digits; or nothing.
IsOptionalExponent(e) ==
    \/ e = <<>>
    \/ /\ e[1] \in {"e", "E"}
       /\ \/ IsDigitRun(Tail(e))
          \/ Len(e) > 1 /\ e[2] \in {"+", "-"} /\ IsDigitRun(Tail(Tail(e)))

\* One of the 14 units, in any letter case.
IsAllowedUnit(u) ==
    \E k \in DOMAIN Units : [m \in DOMAIN u |-> Canonicalize(u[m])] = Units[k]

\* The number is not below zero: no minus sign, or every digit is 0.
IsNonNegativeNumber(sg, d, f) ==
    sg # <<"-">> \/ \A k \in DOMAIN (d \o f) : (d \o f)[k] \in {"0", "."}

\* The token form the claim describes: sign, digits, fraction, exponent, unit.
IsClaimedLength(parts) ==
    /\ IsDigitRun(parts[2])
    /\ IsOptionalFraction(parts[3])
    /\ IsOptionalExponent(parts[4])
    /\ IsAllowedUnit(parts[5])
    /\ IsNonNegativeNumber(parts[1], parts[2], parts[3])

\* C8 as claimed: every non-negative number of the form sign, digits,
\* fraction, exponent followed by one of the 14 units is accepted; every
\* token that ends in a disallowed unit is rejected.
C8_AcceptsEverySignedDecimalLength ==
    (Validated /\ tokenForm.kind = "number") =>
        /\ IsClaimedLength(tokenForm.parts) => verdict = "length"
        /\ tokenForm.parts[5] \in DisallowedUnits => verdict = "invalid"

\* C8 as amended: the number is accepted when it has no sign or no fraction,
\* and rejected when it has both; the disallowed units are rejected.
C8_AcceptsLengthsWithoutSignedFraction ==
    (Validated /\ tokenForm.kind = "number") =>
        /\ (/\ IsClaimedLength(tokenForm.parts)
            /\ tokenForm.parts[1] = <<>> \/ tokenForm.parts[3] = <<>>)
              => verdict = "length"
        /\ (/\ IsClaimedLength(tokenForm.parts)
            /\ tokenForm.parts[1] # <<>>
            /\ tokenForm.parts[3] # <<>>)
              => verdict = "invalid"
        /\ tokenForm.parts[5] \in DisallowedUnits => verdict = "invalid"

\* C8's case: a minus sign, an exponent with a sign, an upper-case unit.
C8_Witness ==
    /\ Validated
    /\ token = <<"-", "0", "E", "-", "0", "P", "X">>
    /\ verdict = "length"

CalcAllowed ==
    Digits \cup LowerLetters \cup {UpperAlpha[k] : k \in DOMAIN UpperAlpha}
        \cup {" ", ".", "+", "-", "*", "/", "(", ")"}

\* "calc(" in any case, one or more allowed characters, a final ")".
HasCalcShape(t) ==
    /\ Len(t) >= 7
    /\ [k \in 1 .. 5 |-> Canonicalize(t[k])] = <<"c", "a", "l", "c", "(">>
    /\ t[Len(t)] = ")"
    /\ \A k \in 6 .. (Len(t) - 1) : t[k] \in CalcAllowed

\* C9: a token is accepted as a calc form exactly when it is "calc(" in any
\* letter case, a run of allowed characters and a final ")"; inner
\* parentheses need not balance; "calc((5px + 5px)*2)" and
\* "calc(200px * 1.4)" are accepted and "calc(1px" is rejected.
C9_CalcAcceptedExactlyByShape ==
    Validated =>
        /\ verdict = "calc" <=> HasCalcShape(token)
        /\ token \in
             { <<"c", "a", "l", "c", "(", "(", "5", "p", "x", " ", "+", " ",
                 "5", "p", "x", ")", "*", "2", ")">>,
               <<"c", "a", "l", "c", "(", "2", "0", "0", "p", "x", " ", "*",
                 " ", "1", ".", "4", ")">> }
             => verdict = "calc"
        /\ token = <<"c", "a", "l", "c", "(", "1", "p", "x">>
             => verdict = "invalid"

\* C9's case: an accepted calc token whose inner parentheses do not balance
\* and whose run holds a ".".
C9_Witness ==
    /\ Validated
    /\ token = <<"C", "A", "L", "C", "(", "(", ".", "1", ")">>
    /\ verdict = "calc"

\* ------------------------------------------------------------------------
\* The tokenizer's claims about comments, whitespace and commas.

\* The state in which the scan of str reaches its return statement.
RECURSIVE ScanEnd(_, _)
ScanEnd(st, str) ==
    IF st.returned THEN st ELSE ScanEnd(ScanStep(st, str), str)

\* The scan of str is inside a comment when it reaches the end of str.
EndsInComment(str) == ScanEnd(ScanInit, str).inComment

ContainsCommentEnd(str) ==
    \E k \in 1 .. (Len(str) - 1) : str[k] = "*" /\ str[k + 1] = "/"

\* C11: for every way of writing the input as s, "/*", t with s not ending
\* inside a comment and t holding no "*/", parseComponentValues of the input
\* equals parseComponentValues(s); "/* 50vw" gives "100vw".
C11_UnterminatedCommentAbsorbsRest ==
    /\ (pc = "select" /\ i = 0) =>
          \A k \in 1 .. (Len(strValue) - 1) :
             (/\ strValue[k] = "/"
              /\ strValue[k + 1] = "*"
              /\ ~ContainsCommentEnd(SubSeq(strValue, k + 2, Len(strValue)))
              /\ ~EndsInComment(SubSeq(strValue, 1, k - 1)))
                => parseComponentValues(SubSeq(strValue, 1, k - 1))
                      = listArray
    /\ (Returned /\ strValue = <<"/", "*", " ", "5", "0", "v", "w">>)
          => result = Default100vw

\* C11's case: a size, then an unclosed comment that holds a comma and a
\* second size.
C11_Witness ==
    /\ Returned
    /\ strValue = <<"1", "p", "x", "/", "*", ",", "1", "p", "x">>
    /\ inComment
    /\ listArray = << << <<"1", "p", "x">> >> >>
    /\ result = <<"1", "p", "x">>

\* The number of "(" that the scan of str has met before it is at position
\* upto and that no ")" has closed since; a ")" that had nothing to close
\* is not counted.
RECURSIVE UnclosedParens(_, _, _, _)
UnclosedParens(st, open, str, upto) ==
    IF st.pos >= upto \/ st.returned THEN open
    ELSE LET nx == ScanStep(st, str)
         IN  UnclosedParens(
                 nx,
                 IF nx.parenDepth > st.parenDepth THEN open + 1
                 ELSE IF nx.parenDepth < st.parenDepth /\ open > 0
                      THEN open - 1 ELSE open,
                 str, upto)

UnclosedParensHere == UnclosedParens(ScanInit, 0, strValue, pos)

\* The scan is at a whitespace character outside a comment.
AtWhitespace ==
    /\ pc = "scan"
    /\ strValue # Undefined
    /\ ~inComment
    /\ isSpace(CharAt(strValue, pos))

\* The whitespace character is the first of its run and a token is under way.
MeetsWhitespaceRun ==
    /\ AtWhitespace
    /\ ~isSpace(CharAt(strValue, pos - 1))
    /\ component # <<>>

EndsTokenWithoutCharacter ==
    /\ component' = <<>>
    /\ componentArray' = Append(componentArray, component)

AddsOneSpaceToToken ==
    /\ component' = Append(component, " ")
    /\ componentArray' = componentArray

TokensSoFar ==
    UNION {{listArray[k][m] : m \in DOMAIN listArray[k]} :
              k \in DOMAIN listArray}
        \cup {componentArray[m] : m \in DOMAIN componentArray}
        \cup {component}

WellSpaced(t) ==
    /\ Len(t) > 0 => t[1] # " "
    /\ \A k \in 1 .. (Len(t) - 1) : ~(t[k] = " " /\ t[k + 1] = " ")

\* The whitespace branch by the value of parenDepth alone: a run met at
\* parenDepth 0 ends the token and adds nothing, one met at parenDepth > 0
\* adds one space; the rest of a run, and a run met with no token under way,
\* add nothing; no token begins with a space or holds two spaces in a row.
WhitespaceByParenDepthZeroOrPositive ==
    /\ [][ /\ (MeetsWhitespaceRun /\ parenDepth = 0)
                => EndsTokenWithoutCharacter
           /\ (MeetsWhitespaceRun /\ parenDepth > 0) => AddsOneSpaceToToken
           /\ (AtWhitespace /\ ~MeetsWhitespaceRun)
                => (component' = component
                    /\ componentArray' = componentArray) ]_vars
    /\ [](\A t \in TokensSoFar : WellSpaced(t))

\* C12: a whitespace run met while no parenthesis is open (parenDepth is 0,
\* or every "(" scanned so far has been closed) ends the token and adds
\* nothing, one met at parenDepth > 0 adds one space; hence a space enters a
\* token only after a "(" that is still unclosed, and no token begins with a
\* space or holds two spaces in a row.
C12_WhitespaceKeptOnlyInsideOpenParens ==
    /\ [][ /\ (MeetsWhitespaceRun
               /\ (parenDepth = 0 \/ UnclosedParensHere = 0))
                => EndsTokenWithoutCharacter
           /\ (MeetsWhitespaceRun /\ parenDepth > 0) => AddsOneSpaceToToken
           /\ (AtWhitespace /\ component' = Append(component, " "))
                => UnclosedParensHere > 0 ]_vars
    /\ [](\A t \in TokensSoFar : WellSpaced(t))

\* ------------------------------------------------------------------------
\* The calls of window.matchMedia during one call of parseSizes.

\* C13: window.matchMedia is called only for a group whose last token is a
\* valid size and that has another token, with exactly the other tokens
\* joined by single spaces; the calls come in increasing group order, at
\* most one per group, and none comes after the group whose size is returned.
C13_MediaCalledOnlyForValidGroupsInOrder ==
    /\ [](\A n \in DOMAIN mediaCalls :
             /\ isValidNonNegativeSourceSizeValue(
                    SizeOf(mediaCalls[n].group + 1))
             /\ Len(listArray[mediaCalls[n].group + 1]) > 1
             /\ mediaCalls[n].text = MediaText(mediaCalls[n].group + 1)
             /\ \A m \in 1 .. (n - 1) :
                   mediaCalls[m].group < mediaCalls[n].group
             /\ Returned => mediaCalls[n].group <= i)
    /\ [][pc = "done" => mediaCalls' = mediaCalls]_vars

\* ------------------------------------------------------------------------
\* The scan on its own.  parseComponentValues is one synchronous loop that
\* nothing interrupts: an iteration that can be taken is taken.

ScanInputs == PieceStrings(MaxScanPieces) \cup Examples \cup {Undefined}

\* The console plays no part in the scan.
InitScan ==
    /\ strValue \in ScanInputs
    /\ hasConsole = TRUE
    /\ InitCall
    /\ pc = "scan"
    /\ token = <<>>
    /\ tokenForm = NoForm
    /\ verdict = "pending"

NextScan ==
    \/ ScanThrow
    \/ ScanChar
    \/ ScanReturn

SpecScan == InitScan /\ [][NextScan]_vars /\ WF_vars(NextScan)

\* What the end of the string has to flush: the token under way joins the
\* group under way, and that group, if it has a token, joins the list.
PendingTokens ==
    IF component # <<>> THEN Append(componentArray, component)
    ELSE componentArray

PendingGroups == IF PendingTokens # <<>> THEN <<PendingTokens>> ELSE <<>>

\* C14: on a string the scan never throws, every iteration that does not
\* return moves pos forward by at least 1 and not past the end, the
\* iteration at the end of the string flushes the pending token and group
\* and returns the list, and every scan reaches that return.
C14_ScanAdvancesFlushesAndReturns ==
    /\ [][ (pc = "scan" /\ strValue # Undefined) =>
              /\ pc' # "threw"
              /\ pc' = "scan" => (pos' >= pos + 1 /\ pos' <= Len(strValue))
              /\ pc' # "scan" =>
                    /\ pos = Len(strValue)
                    /\ pc' = "select"
                    /\ component' = <<>>
                    /\ componentArray' = <<>>
                    /\ listArray' = listArray \o PendingGroups
                    /\ unparsedSizesList' = listArray' ]_vars
    /\ (pc = "scan" /\ strValue # Undefined) ~> (pc = "select")

\* C14's case: a scan that returns with parenDepth below zero and inside a
\* comment that was never closed, the pending token flushed.
C14_Witness ==
    /\ pc = "select"
    /\ strValue = <<")", " ", "/", "*">>
    /\ parenDepth = -1
    /\ inComment
    /\ pos = 4
    /\ listArray = << << <<")", " ">> >> >>

\* ------------------------------------------------------------------------
\* The groups on either side of a comma.

ContainsCommentStart(str) ==
    \E k \in 1 .. (Len(str) - 1) : str[k] = "/" /\ str[k + 1] = "*"

\* C15: for every way of writing a comment-free input as a, ",", b the list
\* of parseComponentValues is the groups of parseComponentValues(a) followed
\* by the groups of parseComponentValues(b), whatever parentheses a holds.
C15_GroupsTokenizedIndependently ==
    (/\ pc = "select"
     /\ i = 0
     /\ ~ContainsCommentStart(strValue))
        => \A k \in CommaPositions(strValue) :
              listArray =
                 parseComponentValues(SubSeq(strValue, 1, k - 1))
                    \o parseComponentValues(
                          SubSeq(strValue, k + 1, Len(strValue)))

====
